---- MODULE Spec2Model ----
(***************************************************************************)
(* Model of the two Cortex Search demo applications:                       *)
(*   src/cortex_search_app.py        (entitlement app,  app = "ent")       *)
(*   src/tpcds_cortex_search_app.py  (TPCDS app,        app = "tpcds")     *)
(* The state machine follows a script run of main(): the sidebar (the user  *)
(* list, the auto-refresh checkbox, "Clear All Filters"), the Search       *)
(* button, then one invocation of the search function                      *)
(* (search_transactions_cortex_optimized / search_tpcds_cortex_optimized)  *)
(* from the start timestamp, through the service lookup, the filter       *)
(* construction and the blocking backend call, to the returned triple      *)
(* (df, response_time, result_count) or the except branch, and then the    *)
(* rest of main(): the summary, display_performance_metrics and the        *)
(* results / no-results branch.                                            *)
(*                                                                         *)
(* Times are integer milliseconds.  Query texts are sequences of           *)
(* one-character strings so that str.strip() is computed, not assumed.     *)
(* Python's None is the record None; an optional value v is Some(v).       *)
(*                                                                         *)
(* GenSpec models src/generate_sample_data.py: generate_amount and the     *)
(* department rule of generate_transaction.                                *)
(***************************************************************************)
EXTENDS Integers, Sequences, FiniteSets, TLC

VARIABLES
    app,          \* which application's search function is running
    pc,           \* position inside the search function
    now,          \* the reading of time.time(), in ms
    args,         \* the arguments of the running invocation
    start_time,   \* local start_time (ms)
    inflight,     \* the request on its way to the backend, or NoRequest
    nCalls,       \* backend search calls issued by this invocation
    callDuration, \* how long the backend call took (set when it ends)
    response_time,\* local response_time (ms), set at the end timestamp
    ret,          \* the returned (df, response_time, result_count)
    diag,         \* messages emitted through st.success/info/error
    escaped,      \* an exception left the search function
    failedAt,     \* the step that raised in this invocation, or "none"
    raw,          \* search_results: the rows of the response, as received
    sort_col,     \* local amount_col / price_col of the search function
    summary,      \* main's summary dict, or NoSummary before it is computed
    summary_col,  \* local amount_col / price_col of the summary function
    metrics,      \* what display_performance_metrics has shown, or NoMetrics
    branch,       \* the branch of `if not df.empty` main has rendered
    uiError,      \* the exception that ended main, or "none"
    widgets,      \* what the checkbox and the buttons return in this script run
    users,        \* the USER_ID column of users_df (entitlement app)
    session_state,\* the keys of st.session_state
    in_flight,    \* backend search calls issued and not yet returned or failed
    gen           \* generate_sample_data.py: the transaction being generated

\* the locals of the search function kept for the properties
procVars == <<raw, sort_col>>

\* the state of main() after the search function has returned
mainVars == <<summary, summary_col, metrics, branch, uiError>>

\* the state of main() before the search step
topVars == <<widgets, users, session_state>>

\* the variables of the Streamlit session
sessionVars == <<app, pc, now, args, start_time, inflight, nCalls, callDuration,
                 response_time, ret, diag, escaped, failedAt, raw, sort_col,
                 summary, summary_col, metrics, branch, uiError, widgets,
                 users, session_state, in_flight>>

vars == <<app, pc, now, args, start_time, inflight, nCalls, callDuration,
          response_time, ret, diag, escaped, failedAt, raw, sort_col,
          summary, summary_col, metrics, branch, uiError, widgets, users,
          session_state, in_flight, gen>>

------------------------------------------------------------------------------
(* Bounds of the model *)

\* most values selected in one multi-valued facet
MaxSel == 2

\* most rows in one backend response
MaxRows == 2

------------------------------------------------------------------------------
(* Python values *)

None == [none |-> TRUE]

Some(v) == [val |-> v]

IsNone(x) == "none" \in DOMAIN x

\* truthiness of an optional list: None and [] are falsy
TruthyList(x) == ~IsNone(x) /\ Len(x.val) > 0

\* truthiness of an optional dict with keys min, max: a non-empty dict is truthy
TruthyDict(x) == ~IsNone(x)

------------------------------------------------------------------------------
(* str.strip() *)

Whitespace == {" ", "\t"}

RECURSIVE lstrip(_)
lstrip(s) ==
    IF s = <<>> THEN <<>>
    ELSE IF Head(s) \in Whitespace THEN lstrip(Tail(s))
    ELSE s

RECURSIVE rstrip(_)
rstrip(s) ==
    IF s = <<>> THEN <<>>
    ELSE IF s[Len(s)] \in Whitespace THEN rstrip(SubSeq(s, 1, Len(s) - 1))
    ELSE s

strip(s) == rstrip(lstrip(s))

------------------------------------------------------------------------------
(* Inputs of the search functions *)

UserIds == {"USER_001", "USER_002"}

Queries ==
    { <<>>, <<" ">>, <<" ", "\t">>, <<"a">>, <<" ", "a", " ">>, <<"a", " ", "b">> }

\* st.slider("Max results to return:", 10, 200, 50, 10)
Limits == {10, 50}

\* the price slider runs over [0, 1000]; the function itself accepts any pair
PriceDomainMin == 0

PriceDomainMax == 1000

PriceRanges ==
    { None,
      Some([min |-> 0, max |-> 1000]),
      Some([min |-> 0, max |-> 500]),
      Some([min |-> 500, max |-> 1000]),
      Some([min |-> 10, max |-> 990]),
      Some([min |-> 500, max |-> 100]) }

year_options == <<2000, 2001, 2002, 2003>>

gender_options == <<"M", "F">>

marital_status_options == <<"M", "S", "D", "W", "U">>

category_options == <<"Electronics", "Clothing", "Home", "Sports", "Books">>

Min(a, b) == IF a < b THEN a ELSE b

\* what a multiselect over options can hold, up to MaxSel values, or None
Selections(options) ==
    {None} \cup { Some(SubSeq(options, 1, k)) : k \in 0..Min(MaxSel, Len(options)) }

\* filters.get(k) is None both for a missing key and for a key holding None
FilterDicts ==
    [ price_range : PriceRanges,
      year_range : Selections(year_options),
      customer_gender : Selections(gender_options),
      marital_status : Selections(marital_status_options),
      category_name : Selections(category_options) ]

\* the filters argument: None (the default) or a dict
FiltersArgs == {None} \cup { Some(f) : f \in FilterDicts }

NoArgs == [none |-> TRUE]


------------------------------------------------------------------------------
(* The filter expression sent to the backend *)

NullFilter == [op |-> "null"]

Leaf(op, field, value) == [op |-> op, field |-> field, value |-> value]

AndOf(children) == [op |-> "@and", children |-> children]

\* mutant of entitlement_filter: the identity is a fixed user, not the argument
entitlement_filter_fixed_user(user_id) ==
    Leaf("@contains", "entitled_user_ids", "USER_001")

\* cortex_search_app.py: the entitlement filter of STEP 2
entitlement_filter(user_id) == Leaf("@contains", "entitled_user_ids", user_id)

\* mutant of price_conditions: the @and of the range holds the lower bound only
price_conditions_lower_only(f) ==
    IF TruthyDict(f.price_range) /\ f.price_range.val.min > 0
    THEN << AndOf(<< Leaf("@gte", "unit_price", f.price_range.val.min) >>) >>
    ELSE <<>>

\* mutant of price_conditions: the range is sent whenever one is given
price_conditions_always(f) ==
    IF TruthyDict(f.price_range)
    THEN << AndOf(<< Leaf("@gte", "unit_price", f.price_range.val.min),
                     Leaf("@lte", "unit_price", f.price_range.val.max) >>) >>
    ELSE <<>>

\* tpcds: the price-range condition
price_conditions(f) ==
    IF TruthyDict(f.price_range) /\ f.price_range.val.min > 0
    THEN << AndOf(<< Leaf("@gte", "unit_price", f.price_range.val.min),
                     Leaf("@lte", "unit_price", f.price_range.val.max) >>) >>
    ELSE <<>>

\* tpcds: the year_range selection is sent on the field "year"
WireField(field) == IF field = "year_range" THEN "year" ELSE field

\* mutant of facet_conditions: a single value is sent as a one-element @in
facet_conditions_always_in(f, field) ==
    IF TruthyList(f[field])
    THEN << Leaf("@in", WireField(field), f[field].val) >>
    ELSE <<>>

\* tpcds: the condition of one multi-valued facet
facet_conditions(f, field) ==
    IF TruthyList(f[field])
    THEN IF Len(f[field].val) = 1
         THEN << Leaf("@eq", WireField(field), f[field].val[1]) >>
         ELSE << Leaf("@in", WireField(field), f[field].val) >>
    ELSE <<>>

\* tpcds: filter_conditions, appended in the order of the code
filter_conditions(f) ==
    price_conditions(f)
    \o facet_conditions(f, "year_range")
    \o facet_conditions(f, "customer_gender")
    \o facet_conditions(f, "marital_status")
    \o facet_conditions(f, "category_name")

\* mutant of combine_conditions: a single condition is wrapped in @and too
combine_conditions_always_and(conds) ==
    IF conds # <<>> THEN AndOf(conds) ELSE NullFilter

\* tpcds: one condition is sent as it is, several under one @and
combine_conditions(conds) ==
    IF conds # <<>>
    THEN IF Len(conds) = 1 THEN conds[1] ELSE AndOf(conds)
    ELSE NullFilter

\* tpcds: filter_object for the filters argument (None or a dict)
filter_object(filters) ==
    IF IsNone(filters) THEN NullFilter
    ELSE combine_conditions(filter_conditions(filters.val))

------------------------------------------------------------------------------
(* The request of STEP 4 *)

NoRequest == [none |-> TRUE]

essential_columns(a) ==
    IF a = "ent"
    THEN << "txn_id", "region_name", "description", "amount", "transaction_type",
            "category", "merchant_name", "transaction_date", "entitled_user_ids" >>
    ELSE << "item_key", "customer_key", "store_key", "date_key",
            "item_description", "product_name", "brand_name", "category_name",
            "store_name", "store_location", "customer_info",
            "unit_price", "total_sales", "quantity", "profit",
            "customer_gender", "marital_status", "transaction_date", "year" >>

scoring_config == [reranker |-> "none"]

\* the literal query of the "show all" branch
sentinel_query(a) ==
    IF a = "ent"
    THEN << "t", "r", "a", "n", "s", "a", "c", "t", "i", "o", "n" >>
    ELSE << "p", "r", "o", "d", "u", "c", "t", "s", " ",
            "t", "r", "a", "n", "s", "a", "c", "t", "i", "o", "n", "s" >>

\* the filter argument of cortex_search_service.search
filter_sent(a, ar) ==
    IF a = "ent" THEN entitlement_filter(ar.user_id) ELSE filter_object(ar.filters)

\* the call of the if branch: "Semantic search", query=search_query
semantic_request(a, ar) ==
    [ query |-> ar.search_query,
      columns |-> essential_columns(a),
      filter |-> filter_sent(a, ar),
      scoring_config |-> scoring_config,
      limit |-> ar.limit ]

\* mutant of broad_request: the broad search leaves the limit to the service
broad_request_fixed_limit(a, ar) ==
    [ query |-> sentinel_query(a),
      columns |-> essential_columns(a),
      filter |-> filter_sent(a, ar),
      scoring_config |-> scoring_config,
      limit |-> 10 ]

\* the call of the else branch: "Broad search", query=<the literal>
broad_request(a, ar) ==
    [ query |-> sentinel_query(a),
      columns |-> essential_columns(a),
      filter |-> filter_sent(a, ar),
      scoring_config |-> scoring_config,
      limit |-> ar.limit ]

\* mutant of search_request: the text is passed on without the blank test
search_request_no_blank_test(a, ar) == semantic_request(a, ar)

\* if search_query.strip(): <semantic call> else: <broad call>
search_request(a, ar) ==
    IF strip(ar.search_query) # <<>> THEN semantic_request(a, ar) ELSE broad_request(a, ar)

------------------------------------------------------------------------------
(* Backend rows and the DataFrame built from them *)

\* a cell: a string, a number (in hundredths) or NaN
Str(x) == [t |-> "str", v |-> x]

Num(n) == [t |-> "num", v |-> n]

NaN == [t |-> "nan"]

IsNaN(c) == c.t = "nan"

\* the alias list of the primary numeric field, in the order the code tries it
primary_names(a) ==
    IF a = "ent" THEN << "AMOUNT", "amount" >> ELSE << "unit_price", "UNIT_PRICE" >>

id_column(a) == IF a = "ent" THEN "txn_id" ELSE "item_key"

\* the date column both apps request
date_column == "transaction_date"

\* a row that dict() cannot convert
BadRow == [bad |-> TRUE]

IsBad(r) == "bad" \in DOMAIN r

\* the rows a backend response is made of
RawRows(a) ==
    LET id == id_column(a)
        p1 == primary_names(a)[1]
        p2 == primary_names(a)[2]
        dt == date_column
    IN  { (p1 :> Str("1200.50")),
          (p2 :> Str("900")),
          (id :> Num(3)) @@ (p1 :> Str("900")) @@ (dt :> Str("2024-01-15")),
          (id :> Num(4)) @@ (p1 :> Str("abc")),
          (id :> Num(5)),
          (id :> Num(6)) @@ (p1 :> Str("900.0")) @@ (dt :> Str("soon")),
          BadRow }

RECURSIVE SeqsUpTo(_, _)
SeqsUpTo(S, n) ==
    IF n = 0 THEN { <<>> }
    ELSE LET shorter == SeqsUpTo(S, n - 1)
         IN  shorter \cup { Append(q, x) : q \in { r \in shorter : Len(r) = n - 1 }, x \in S }

\* search_response.results
Responses(a) == SeqsUpTo(RawRows(a), MaxRows)

EmptyDF == [columns |-> {}, rows |-> <<>>]

\* df.empty: no rows or no columns
IsEmptyDF(df) == df.rows = <<>> \/ df.columns = {}

\* pd.DataFrame(list of dicts): the columns are the union of the keys, a missing
\* key is NaN
DataFrame(rows) ==
    LET cols == UNION { DOMAIN rows[i] : i \in 1..Len(rows) }
    IN  [ columns |-> cols,
          rows |-> [ i \in 1..Len(rows) |->
                       [ c \in cols |-> IF c \in DOMAIN rows[i] THEN rows[i][c] ELSE NaN ] ] ]

\* the numeric literals of the model, in hundredths
parse_numeric(x) ==
    CASE x = "1200.50" -> Num(120050)
      [] x = "900" -> Num(90000)
      [] x = "900.0" -> Num(90000)
      [] OTHER -> NaN

\* pd.to_numeric(cell, errors='coerce')
to_numeric(c) == IF c.t = "str" THEN parse_numeric(c.v) ELSE c

numeric_columns(a) ==
    IF a = "ent"
    THEN { "AMOUNT", "amount", "ENTITLED_USER_COUNT", "entitled_user_count" }
    ELSE { "unit_price", "UNIT_PRICE", "total_sales", "TOTAL_SALES", "quantity",
           "QUANTITY", "profit", "PROFIT", "current_price", "CURRENT_PRICE" }

\* the first loop of convert_data_types
coerce_numeric(a, df) ==
    [ df EXCEPT !.rows =
        [ i \in 1..Len(df.rows) |->
            [ c \in df.columns |->
                IF c \in numeric_columns(a) THEN to_numeric(df.rows[i][c])
                ELSE df.rows[i][c] ] ] ]

\* a datetime cell, as yyyymmdd
Date(v) == [t |-> "date", v |-> v]

\* the date literals of the model; anything else is NaT
parse_datetime(x) ==
    CASE x = "2024-01-15" -> Date(20240115)
      [] OTHER -> NaN

\* pd.to_datetime(cell, errors='coerce')
to_datetime(c) == IF c.t = "str" THEN parse_datetime(c.v) ELSE c

date_columns == { "TRANSACTION_DATE", "transaction_date" }

\* the second loop of convert_data_types
coerce_dates(df) ==
    [ df EXCEPT !.rows =
        [ i \in 1..Len(df.rows) |->
            [ c \in df.columns |->
                IF c \in date_columns THEN to_datetime(df.rows[i][c])
                ELSE df.rows[i][c] ] ] ]

\* mutant of get_column_name: the last name that is a column wins
RECURSIVE get_column_name_last(_, _)
get_column_name_last(df, possible_names) ==
    IF possible_names = <<>> THEN None
    ELSE IF possible_names[Len(possible_names)] \in df.columns
         THEN Some(possible_names[Len(possible_names)])
    ELSE get_column_name_last(df, SubSeq(possible_names, 1, Len(possible_names) - 1))

\* get_column_name(df, possible_names)
RECURSIVE get_column_name(_, _)
get_column_name(df, possible_names) ==
    IF possible_names = <<>> THEN None
    ELSE IF Head(possible_names) \in df.columns THEN Some(Head(possible_names))
    ELSE get_column_name(df, Tail(possible_names))

\* mutant of drop_column: the if/elif tests the second name first
drop_column_second_first(a, df) ==
    IF primary_names(a)[2] \in df.columns THEN Some(primary_names(a)[2])
    ELSE IF primary_names(a)[1] \in df.columns THEN Some(primary_names(a)[1])
    ELSE None

\* the column convert_data_types cleans: the if/elif of "Clean any null values"
drop_column(a, df) ==
    IF primary_names(a)[1] \in df.columns THEN Some(primary_names(a)[1])
    ELSE IF primary_names(a)[2] \in df.columns THEN Some(primary_names(a)[2])
    ELSE None

\* the rows of s with a value in column col
RECURSIVE SelectRows(_, _)
SelectRows(s, col) ==
    IF s = <<>> THEN <<>>
    ELSE IF IsNaN(Head(s)[col]) THEN SelectRows(Tail(s), col)
    ELSE <<Head(s)>> \o SelectRows(Tail(s), col)

\* mutant of dropna: no row is dropped
dropna_keep_all(df, col) == df

\* df.dropna(subset=[col])
dropna(df, col) == [ df EXCEPT !.rows = SelectRows(df.rows, col) ]

\* convert_data_types(df)
convert_data_types(a, df) ==
    IF IsEmptyDF(df) THEN df
    ELSE LET conv == coerce_dates(coerce_numeric(a, df))
             col == drop_column(a, conv)
         IN  IF IsNone(col) THEN conv ELSE dropna(conv, col.val)

\* the st.info of convert_data_types, emitted only when rows were dropped
dropped_messages(a, df) ==
    LET out == convert_data_types(a, df)
    IN  IF Len(out.rows) < Len(df.rows)
        THEN << [level |-> "info", prefix |-> "Dropped rows with null",
                 detail |-> "", n |-> Len(df.rows) - Len(out.rows)] >>
        ELSE <<>>

IndexPermutations(n) == { f \in [1..n -> 1..n] : \A i, j \in 1..n : i # j => f[i] # f[j] }

\* cell x may stand directly before cell y in a descending sort: nulls go last
\* (na_position='last')
DescendingPair(x, y) == IsNaN(y) \/ (~IsNaN(x) /\ x.v >= y.v)

\* df.sort_values(col, ascending=False).reset_index(drop=True): the default
\* kind is quicksort, which leaves the order of equal keys open
sort_values_desc(df, col) ==
    { [ df EXCEPT !.rows = [ i \in 1..Len(df.rows) |-> df.rows[f[i]] ] ] :
        f \in { g \in IndexPermutations(Len(df.rows)) :
                  \A i \in 1..(Len(df.rows) - 1) :
                     DescendingPair(df.rows[g[i]][col], df.rows[g[i + 1]][col]) } }

\* local amount_col / price_col of the search function: the column the frame
\* is sorted on, None when the frame is empty or has no such column
sort_column(a, df) ==
    IF IsEmptyDF(df) THEN None
    ELSE get_column_name(convert_data_types(a, df), primary_names(a))

\* `if not df.empty:` convert_data_types, then the descending sort
normalize_frame(a, df) ==
    IF IsEmptyDF(df) THEN { df }
    ELSE LET conv == convert_data_types(a, df)
             col == get_column_name(conv, primary_names(a))
         IN  IF IsNone(col) THEN { conv } ELSE sort_values_desc(conv, col.val)

\* the frames "Create DataFrame and apply data type conversions" can end with
normalized_frames(a, rows) == normalize_frame(a, DataFrame(rows))

------------------------------------------------------------------------------
(* display_performance_metrics: the classification of response_time *)

\* mutant of perf_status: the upper bound of each bucket is inclusive
perf_status_inclusive(rt) ==
    IF rt <= 300 THEN "Excellent"
    ELSE IF rt <= 800 THEN "Good"
    ELSE IF rt <= 2000 THEN "Acceptable"
    ELSE "Slow"

perf_status(rt) ==
    IF rt < 300 THEN "Excellent"
    ELSE IF rt < 800 THEN "Good"
    ELSE IF rt < 2000 THEN "Acceptable"
    ELSE "Slow"

\* the same classification in the TPCDS app
perf_status_tpcds(rt) ==
    IF rt < 300 THEN "Excellent"
    ELSE IF rt < 800 THEN "Good"
    ELSE IF rt < 2000 THEN "Acceptable"
    ELSE "Slow"

\* the classification display_performance_metrics of app a applies
perf_status_of(a, rt) == IF a = "ent" THEN perf_status(rt) ELSE perf_status_tpcds(rt)

------------------------------------------------------------------------------
(* get_transaction_summary / get_search_summary *)

NoSummary == [none |-> TRUE]

\* the dict {} returned for an empty frame
EmptySummary == [ k \in {} |-> 0 ]

\* truthiness of a dict
TruthySummary(sm) == DOMAIN sm # {}

\* the keys of the summary dict, by role
count_key(a) == IF a = "ent" THEN "total_transactions" ELSE "total_results"
sum_key(a) == IF a = "ent" THEN "total_amount" ELSE "total_value"
avg_key(a) == IF a = "ent" THEN "avg_amount" ELSE "avg_price"
max_key(a) == IF a = "ent" THEN "max_amount" ELSE "max_price"
min_key(a) == IF a = "ent" THEN "min_amount" ELSE "min_price"
info_key(a) == IF a = "ent" THEN "user_info" ELSE "search_info"

\* the keys holding a nunique() and the aliases of their columns
nunique_keys(a) ==
    IF a = "ent"
    THEN << [key |-> "regions_covered", names |-> <<"REGION_NAME", "region_name">>],
            [key |-> "categories", names |-> <<"CATEGORY", "category">>],
            [key |-> "merchants", names |-> <<"MERCHANT_NAME", "merchant_name">>],
            [key |-> "transaction_types",
             names |-> <<"TRANSACTION_TYPE", "transaction_type">>] >>
    ELSE << [key |-> "categories", names |-> <<"category_name", "CATEGORY_NAME">>],
            [key |-> "brands", names |-> <<"brand_name", "BRAND_NAME">>],
            [key |-> "locations", names |-> <<"store_location", "STORE_LOCATION">>],
            [key |-> "genders", names |-> <<"customer_gender", "CUSTOMER_GENDER">>] >>

\* the aliases of the date column, in the order the summary function tries them
date_names(a) ==
    IF a = "ent" THEN <<"TRANSACTION_DATE", "transaction_date">>
    ELSE <<"transaction_date", "TRANSACTION_DATE">>

\* the values of column col that are not null
ColumnValues(df, col) ==
    { df.rows[i][col].v : i \in { j \in 1..Len(df.rows) : ~IsNaN(df.rows[j][col]) } }

RECURSIVE SumRows(_, _)
SumRows(s, col) ==
    IF s = <<>> THEN 0
    ELSE (IF IsNaN(Head(s)[col]) THEN 0 ELSE Head(s)[col].v) + SumRows(Tail(s), col)

\* df[col].sum(): nulls are skipped
column_sum(df, col) == SumRows(df.rows, col)

\* the number of values of column col that are not null
column_count(df, col) == Cardinality({ j \in 1..Len(df.rows) : ~IsNaN(df.rows[j][col]) })

\* df[col].mean(), as the fraction sum / count; NaN when every value is null
column_mean(df, col) ==
    IF column_count(df, col) = 0 THEN NaN
    ELSE [num |-> column_sum(df, col), den |-> column_count(df, col)]

\* df[col].max() and df[col].min(): nulls are skipped, NaN when every value is null
ColumnCells(df, col) ==
    { df.rows[i][col] : i \in { j \in 1..Len(df.rows) : ~IsNaN(df.rows[j][col]) } }

column_max(df, col) ==
    IF ColumnCells(df, col) = {} THEN NaN
    ELSE CHOOSE c \in ColumnCells(df, col) : \A d \in ColumnCells(df, col) : d.v <= c.v

column_min(df, col) ==
    IF ColumnCells(df, col) = {} THEN NaN
    ELSE CHOOSE c \in ColumnCells(df, col) : \A d \in ColumnCells(df, col) : c.v <= d.v

\* df[col].nunique() if col else 0
nunique_or_zero(df, names) ==
    LET col == get_column_name(df, names)
    IN  IF IsNone(col) THEN 0 ELSE Cardinality(ColumnValues(df, col.val))

\* the 'date_range' entry
date_range(a, df) ==
    LET col == get_column_name(df, date_names(a))
    IN  IF IsNone(col) THEN [earliest |-> None, latest |-> None]
        ELSE [earliest |-> column_min(df, col.val), latest |-> column_max(df, col.val)]

\* the entries of the summary dict that hold a nunique()
nunique_entries(a, df) ==
    LET ks == nunique_keys(a)
    IN  [ k \in { ks[i].key : i \in 1..Len(ks) } |->
            nunique_or_zero(df, (CHOOSE e \in { ks[i] : i \in 1..Len(ks) } : e.key = k).names) ]

\* mutant of summary_count: the columns are counted, not the records
summary_count_columns(df) == Cardinality(df.columns)

\* len(df) of 'total_transactions' / 'total_results'
summary_count(df) == Len(df.rows)

\* get_transaction_summary(df, user_info) / get_search_summary(df, search_info)
get_summary(a, df) ==
    IF IsEmptyDF(df) THEN EmptySummary
    ELSE LET col == get_column_name(df, primary_names(a))
         IN  (count_key(a) :> summary_count(df))
             @@ (sum_key(a) :> IF IsNone(col) THEN 0 ELSE column_sum(df, col.val))
             @@ (avg_key(a) :> IF IsNone(col) THEN Num(0) ELSE column_mean(df, col.val))
             @@ (max_key(a) :> IF IsNone(col) THEN Num(0) ELSE column_max(df, col.val))
             @@ (min_key(a) :> IF IsNone(col) THEN Num(0) ELSE column_min(df, col.val))
             @@ nunique_entries(a, df)
             @@ ("date_range" :> date_range(a, df))
             @@ (info_key(a) :> a)

\* local amount_col / price_col of the summary function; not assigned when the
\* frame is empty
summary_column(a, df) ==
    IF IsEmptyDF(df) THEN None ELSE get_column_name(df, primary_names(a))

------------------------------------------------------------------------------
(* display_performance_metrics and the results branch of main *)

NoMetrics == [none |-> TRUE]

\* the key col4 tests for
scope_key(a) == IF a = "ent" THEN "regions_covered" ELSE "categories"

\* the summary keys display_performance_metrics reads: col3 and col4, each
\* behind `if summary and '<key>' in summary`
display_reads(a, sm) ==
    (IF TruthySummary(sm) /\ sum_key(a) \in DOMAIN sm
     THEN { sum_key(a), avg_key(a), min_key(a), max_key(a) } ELSE {})
    \cup
    (IF TruthySummary(sm) /\ scope_key(a) \in DOMAIN sm
     THEN (IF a = "ent" THEN { "regions_covered", "categories", "merchants" }
           ELSE { "categories", "brands", "locations" })
     ELSE {})

\* result_count/(response_time/1000) of the closing st.info: the quotient as a
\* fraction, None where Python raises ZeroDivisionError
results_per_second(rt, result_count) ==
    IF rt = 0 THEN None ELSE Some([num |-> result_count * 1000, den |-> rt])

\* the exception display_performance_metrics ends with, or "none"
display_error(a, rt, result_count, sm) ==
    IF ~(display_reads(a, sm) \subseteq DOMAIN sm) THEN "KeyError"
    ELSE IF IsNone(results_per_second(rt, result_count)) THEN "ZeroDivisionError"
    ELSE "none"

\* what display_performance_metrics(response_time, result_count, summary) shows
display_performance_metrics(a, rt, result_count, sm) ==
    [ tier |-> perf_status_of(a, rt),
      response_time |-> rt,
      result_count |-> result_count,
      reads |-> display_reads(a, sm),
      results_per_second |-> results_per_second(rt, result_count) ]

\* mutant of render_branch: a frame with columns counts as a result
render_branch_by_columns(df) == IF df.columns # {} THEN "results" ELSE "no_results"

\* main: `if not df.empty:` ... `else:` the no-results warning
render_branch(df) == IF ~IsEmptyDF(df) THEN "results" ELSE "no_results"

\* the summary keys the `if not df.empty:` branch of main reads
render_reads(a) ==
    { count_key(a), sum_key(a), avg_key(a), max_key(a), min_key(a), "date_range" }
    \cup { nunique_keys(a)[i].key : i \in 1..Len(nunique_keys(a)) }
    \cup (IF a = "tpcds" THEN { "search_info" } ELSE {})

------------------------------------------------------------------------------
(* Time *)

\* readings of time.time() when a script run starts
StartTimes == {0, 1000}

\* how long the service lookup of STEP 1 can take
LookupTimes == {0, 20}

\* how long the backend call can take
CallTimes == {0, 280, 299, 300, 799, 800, 1999, 2000, 4500, 5000}

\* how long the processing of the response can take
ProcessTimes == {0, 15}

\* str(e) of the exceptions that can be raised
ErrorTexts == {"", "service unavailable"}

------------------------------------------------------------------------------
(* The try/except of the search function *)

NoReturn == [none |-> TRUE]

\* mutant of try_block: only the backend call is guarded
try_block_call_only == {"call"}

\* the steps the try block encloses (lines 88-167 / 69-187)
try_block == {"lookup", "call", "process"}

\* the messages of the except branch
except_messages(e, rt) ==
    << [level |-> "error", prefix |-> "Cortex Search API Error: ", detail |-> e, n |-> 0],
       [level |-> "error", prefix |-> "Failed Request Time: ", detail |-> "ms", n |-> rt] >>

\* the messages before the return of the try block
success_messages(rt, result_count) ==
    << [level |-> "success", prefix |-> "Ultra-Optimized Python API Response: ",
        detail |-> "ms", n |-> rt],
       [level |-> "info", prefix |-> "Performance Optimizations Applied",
        detail |-> "", n |-> result_count] >>

\* mutant of except_return: the time of a failed request is not reported
except_return_no_timing(rt) == [df |-> EmptyDF, response_time |-> 0, result_count |-> 0]

\* what the except branch returns: (pd.DataFrame(), response_time, 0)
except_return(rt) == [df |-> EmptyDF, response_time |-> rt, result_count |-> 0]

\* an exception with text e raised at `point` when the clock reads t
Raise(point, e, t) ==
    /\ failedAt' = point
    /\ IF point \in try_block
       THEN /\ pc' = "done"
            /\ response_time' = t - start_time
            /\ ret' = except_return(t - start_time)
            /\ diag' = diag \o except_messages(e, t - start_time)
            /\ escaped' = FALSE
       ELSE /\ pc' = "raised"
            /\ escaped' = TRUE
            /\ UNCHANGED <<response_time, ret, diag>>

-------------------------------------------------------------------------------
(* main() before the search step *)

\* the widgets a script run reads: the auto-refresh checkbox (entitlement app),
\* the "Clear All Filters" button (TPC-DS app) and the Search button
NoWidgets == [auto_refresh |-> FALSE, clear_button |-> FALSE,
              search_button |-> FALSE]

\* time.sleep(30), in milliseconds
AutoRefreshSleep == 30000

\* what session.sql(users_query).collect() does in get_users_list: it raises,
\* or it returns the active users
UserListOutcomes ==
    {[raised |-> TRUE, error |-> e, ids |-> <<>>] : e \in ErrorTexts}
    \cup {[raised |-> FALSE, error |-> "", ids |-> us] :
             us \in {<<>>, <<"USER_001", "USER_002">>}}

\* get_users_list: the USER_ID column of the frame it returns; pd.DataFrame()
\* from the except branch
get_users_list(o) == IF o.raised THEN <<>> ELSE o.ids

\* get_users_list: st.error of the except branch
get_users_messages(o) ==
    IF o.raised THEN <<"Error fetching users: " \o o.error>> ELSE <<>>

\* mutant of users_empty: main goes on without users
users_empty_never(us) == FALSE

\* users_df.empty
users_empty(us) == Len(us) = 0

no_users_message == "No users found. Please check your database connection."

\* st.selectbox(options=users_df['USER_ID'].tolist()): one of the options
selectbox_options(us) == {us[i] : i \in 1..Len(us)}

\* generate_sample_data.py does not run in the Streamlit session
NoGen == [step |-> "none"]

------------------------------------------------------------------------------
(* The state machine *)

\* the Streamlit session before its first script run
SessionInit ==
    /\ app = "ent"
    /\ pc = "idle"
    /\ now \in StartTimes
    /\ args = NoArgs
    /\ start_time = 0
    /\ inflight = NoRequest
    /\ nCalls = 0
    /\ callDuration = 0
    /\ response_time = 0
    /\ ret = NoReturn
    /\ diag = <<>>
    /\ escaped = FALSE
    /\ failedAt = "none"
    /\ raw = <<>>
    /\ sort_col = None
    /\ summary = NoSummary
    /\ summary_col = None
    /\ metrics = NoMetrics
    /\ branch = "none"
    /\ uiError = "none"
    /\ widgets = NoWidgets
    /\ users = <<>>
    /\ session_state = {}
    /\ in_flight = 0

Init ==
    /\ SessionInit
    /\ gen = NoGen

\* a script run starts: Streamlit runs main() of the app of this session
ScriptStarts ==
    /\ pc = "idle"
    /\ \E a \in {"ent", "tpcds"} : app' = a
    /\ pc' = "top"
    /\ UNCHANGED <<now, args, start_time, inflight, nCalls, callDuration,
                   response_time, ret, diag, escaped, failedAt, procVars,
                   mainVars, topVars, in_flight, gen>>

\* main of the entitlement app: users_df = get_users_list(session), then
\* `if users_df.empty: st.error(...); return`
LoadUsers ==
    /\ pc = "top"
    /\ app = "ent"
    /\ \E o \in UserListOutcomes :
         /\ users' = get_users_list(o)
         /\ diag' = diag \o get_users_messages(o)
                         \o (IF users_empty(get_users_list(o))
                             THEN <<no_users_message>> ELSE <<>>)
         /\ pc' = IF users_empty(get_users_list(o)) THEN "stopped" ELSE "sidebar"
    /\ UNCHANGED <<app, now, args, start_time, inflight, nCalls, callDuration,
                   response_time, ret, escaped, failedAt, procVars, mainVars,
                   widgets, session_state, in_flight, gen>>

\* the rest of the sidebar of the entitlement app: the checkbox is read and
\* `if auto_refresh: time.sleep(30); st.rerun()`
Sidebar ==
    /\ pc = "sidebar"
    /\ \E ar \in BOOLEAN :
         /\ widgets' = [widgets EXCEPT !.auto_refresh = ar]
         /\ now' = IF ar THEN now + AutoRefreshSleep ELSE now
         /\ pc' = IF ar THEN "rerun" ELSE "content"
    /\ UNCHANGED <<app, args, start_time, inflight, nCalls, callDuration,
                   response_time, ret, diag, escaped, failedAt, procVars,
                   mainVars, users, session_state, in_flight, gen>>

\* the sidebar of the TPC-DS app: `if st.button("Clear All Filters"): st.rerun()`
TpcdsSidebar ==
    /\ pc = "top"
    /\ app = "tpcds"
    /\ \E cb \in BOOLEAN :
         /\ widgets' = [widgets EXCEPT !.clear_button = cb]
         /\ pc' = IF cb THEN "rerun" ELSE "content"
    /\ UNCHANGED <<app, now, args, start_time, inflight, nCalls, callDuration,
                   response_time, ret, diag, escaped, failedAt, procVars,
                   mainVars, users, session_state, in_flight, gen>>

\* st.rerun(): this script run ends here and the script runs again from the
\* top; the checkbox keeps its state, a button reads False until pressed again
Rerun ==
    /\ pc = "rerun"
    /\ pc' = "top"
    /\ \E t \in StartTimes : now' = t
    /\ widgets' = [widgets EXCEPT !.clear_button = FALSE, !.search_button = FALSE]
    /\ users' = <<>>
    /\ UNCHANGED <<app, args, start_time, inflight, nCalls, callDuration,
                   response_time, ret, diag, escaped, failedAt, procVars,
                   mainVars, session_state, in_flight, gen>>

\* mutant of SearchButton: the search runs only when the button was pressed
SearchButton_gated ==
    /\ pc = "content"
    /\ \E sb \in BOOLEAN :
         /\ widgets' = [widgets EXCEPT !.search_button = sb]
         /\ session_state' = IF sb THEN session_state \ {"search_results"}
                                   ELSE session_state
         /\ pc' = IF sb THEN "search" ELSE "rendered"
    /\ UNCHANGED <<app, now, args, start_time, inflight, nCalls, callDuration,
                   response_time, ret, diag, escaped, failedAt, procVars,
                   mainVars, users, in_flight, gen>>

\* main content area: `if st.button(<Search>): if 'search_results' in
\* st.session_state: del st.session_state['search_results']`
SearchButton ==
    /\ pc = "content"
    /\ \E sb \in BOOLEAN :
         /\ widgets' = [widgets EXCEPT !.search_button = sb]
         /\ session_state' = IF sb THEN session_state \ {"search_results"}
                                   ELSE session_state
    /\ pc' = "search"
    /\ UNCHANGED <<app, now, args, start_time, inflight, nCalls, callDuration,
                   response_time, ret, diag, escaped, failedAt, procVars,
                   mainVars, users, in_flight, gen>>

\* the function is entered: start_time = time.time()
Enter(a, ar) ==
    /\ app' = a
    /\ args' = ar
    /\ start_time' = now
    /\ now' = now
    /\ pc' = "started"
    /\ inflight' = NoRequest
    /\ nCalls' = 0
    /\ callDuration' = 0
    /\ response_time' = 0
    /\ ret' = NoReturn
    /\ diag' = <<>>
    /\ escaped' = FALSE
    /\ failedAt' = "none"
    /\ raw' = <<>>
    /\ sort_col' = None
    /\ summary' = NoSummary
    /\ summary_col' = None
    /\ metrics' = NoMetrics
    /\ branch' = "none"
    /\ uiError' = "none"
    /\ UNCHANGED <<topVars, in_flight, gen>>

\* main calls search_transactions_cortex_optimized(session, selected_user_id,
\* search_query, result_limit); the selectbox returns one of users_df['USER_ID']
InvokeTransactions ==
    /\ pc = "search"
    /\ app = "ent"
    /\ \E u \in selectbox_options(users), q \in Queries, l \in Limits :
         Enter("ent", [user_id |-> u, search_query |-> q, limit |-> l])

\* search_tpcds_cortex_optimized(session, search_query, filters, limit)
InvokeTpcds ==
    /\ pc = "search"
    /\ app = "tpcds"
    /\ \E q \in Queries, f \in FiltersArgs, l \in Limits :
         Enter("tpcds", [search_query |-> q, filters |-> f, limit |-> l])

\* STEP 1 raises: the service cannot be looked up
LookupFails ==
    /\ pc = "started"
    /\ \E d \in LookupTimes, e \in ErrorTexts :
         /\ now' = now + d
         /\ Raise("lookup", e, now + d)
    /\ args' = NoArgs
    /\ UNCHANGED <<app, start_time, inflight, nCalls, callDuration, procVars, mainVars,
                   topVars, in_flight, gen>>

\* mutant of IssueCall: the call does not block, the function goes on and can
\* issue the request again
IssueCall_nonblocking ==
    /\ pc = "started"
    /\ nCalls < 3
    /\ \E d \in LookupTimes : now' = now + d
    /\ inflight' = search_request(app, args)
    /\ nCalls' = nCalls + 1
    /\ in_flight' = in_flight + 1
    /\ UNCHANGED <<app, pc, args, start_time, callDuration, response_time, ret,
                   diag, escaped, failedAt, procVars, mainVars, topVars, gen>>

\* STEPs 1-4 up to the call: the request is built and handed to the backend,
\* and the function blocks in cortex_search_service.search
IssueCall ==
    /\ pc = "started"
    /\ \E d \in LookupTimes : now' = now + d
    /\ inflight' = search_request(app, args)
    /\ nCalls' = nCalls + 1
    /\ in_flight' = in_flight + 1
    /\ pc' = "inflight"
    /\ UNCHANGED <<app, args, start_time, callDuration, response_time, ret, diag,
                   escaped, failedAt, procVars, mainVars,
                   topVars, gen>>

\* the backend has taken the request; the function stays blocked in
\* cortex_search_service.search, which reads none of the arguments again
BackendAccepts ==
    /\ pc = "inflight"
    /\ inflight' = NoRequest
    /\ args' = NoArgs
    /\ pc' = "blocked"
    /\ UNCHANGED <<app, now, start_time, nCalls, callDuration, response_time, ret, diag,
                   escaped, failedAt, procVars, mainVars,
                   topVars, in_flight, gen>>

\* the call returns: end_time = time.time(), response_time is computed
CallReturns ==
    /\ pc = "blocked"
    /\ \E d \in CallTimes :
         /\ now' = now + d
         /\ callDuration' = d
         /\ response_time' = (now + d) - start_time
    /\ in_flight' = in_flight - 1
    /\ pc' = "responded"
    /\ UNCHANGED <<app, args, start_time, inflight, nCalls, ret, diag, escaped, failedAt,
                   procVars, mainVars,
                   topVars, gen>>

\* mutant of CallFails: a failed call is issued again
CallFails_retry ==
    /\ pc = "blocked"
    /\ nCalls < 3
    /\ \E d \in CallTimes : callDuration' = d
    /\ nCalls' = nCalls + 1
    /\ in_flight' = in_flight
    /\ UNCHANGED <<app, pc, now, args, start_time, inflight, response_time, ret, diag,
                   escaped, failedAt, procVars, mainVars,
                   topVars, gen>>

\* the call raises
CallFails ==
    /\ pc = "blocked"
    /\ \E d \in CallTimes, e \in ErrorTexts :
         /\ now' = now + d
         /\ callDuration' = d
         /\ Raise("call", e, now + d)
    /\ in_flight' = in_flight - 1
    /\ UNCHANGED <<app, args, start_time, inflight, nCalls, procVars, mainVars,
                   topVars, gen>>

\* STEP 4 "Process results": a row dict() cannot convert raises
ProcessFails ==
    /\ pc = "responded"
    /\ \E rows \in Responses(app), d \in ProcessTimes, e \in ErrorTexts :
         /\ \E i \in 1..Len(rows) : IsBad(rows[i])
         /\ now' = now + d
         /\ Raise("process", e, now + d)
         /\ raw' = rows
    /\ UNCHANGED <<app, args, start_time, inflight, nCalls, callDuration, sort_col,
                   mainVars,
                   topVars, in_flight, gen>>

\* STEP 4 "Process results", the DataFrame, the messages and the return
ProcessResponse ==
    /\ pc = "responded"
    /\ \E rows \in Responses(app), d \in ProcessTimes :
         /\ \A i \in 1..Len(rows) : ~IsBad(rows[i])
         /\ now' = now + d
         /\ \E df \in normalized_frames(app, rows) :
              ret' = [df |-> df, response_time |-> response_time,
                      result_count |-> Len(rows)]
         /\ diag' = diag \o dropped_messages(app, DataFrame(rows))
                         \o success_messages(response_time, Len(rows))
         /\ raw' = rows
         /\ sort_col' = sort_column(app, DataFrame(rows))
    /\ pc' = "done"
    /\ escaped' = FALSE
    /\ UNCHANGED <<app, args, start_time, inflight, nCalls, callDuration, response_time,
                   failedAt, mainVars,
                   topVars, in_flight, gen>>

\* main: summary = get_transaction_summary(df, ...) / get_search_summary(df, ...)
Summarise ==
    /\ pc = "done"
    /\ summary' = get_summary(app, ret.df)
    /\ summary_col' = summary_column(app, ret.df)
    /\ pc' = "summarised"
    /\ UNCHANGED <<app, now, args, start_time, inflight, nCalls, callDuration,
                   response_time, ret, diag, escaped, failedAt, procVars, metrics,
                   branch, uiError,
                   topVars, in_flight, gen>>

\* main: display_performance_metrics(response_time, result_count, summary); an
\* exception it raises is caught nowhere and ends the script run
DisplayMetrics ==
    /\ pc = "summarised"
    /\ metrics' = display_performance_metrics(app, ret.response_time, ret.result_count,
                                              summary)
    /\ uiError' = display_error(app, ret.response_time, ret.result_count, summary)
    /\ pc' = IF uiError' = "none" THEN "displayed" ELSE "crashed"
    /\ UNCHANGED <<app, now, args, start_time, inflight, nCalls, callDuration,
                   response_time, ret, diag, escaped, failedAt, procVars, summary,
                   summary_col, branch,
                   topVars, in_flight, gen>>

\* main: `if not df.empty:` the summary section and the tables, `else:` the
\* no-results warning
Render ==
    /\ pc = "displayed"
    /\ branch' = render_branch(ret.df)
    /\ uiError' = IF branch' = "results" /\ ~(render_reads(app) \subseteq DOMAIN summary)
                  THEN "KeyError" ELSE "none"
    /\ pc' = IF uiError' = "none" THEN "rendered" ELSE "crashed"
    /\ UNCHANGED <<app, now, args, start_time, inflight, nCalls, callDuration,
                   response_time, ret, diag, escaped, failedAt, procVars, summary,
                   summary_col, metrics,
                   topVars, in_flight, gen>>

\* the script run ends (main returns or an exception ends it); the next run
\* starts afresh, st.session_state is kept
EndRun ==
    /\ pc \in {"rendered", "crashed", "raised", "stopped"}
    /\ pc' = "idle"
    /\ app' = "ent"
    /\ \E t \in StartTimes : now' = t
    /\ args' = NoArgs
    /\ start_time' = 0
    /\ inflight' = NoRequest
    /\ nCalls' = 0
    /\ callDuration' = 0
    /\ response_time' = 0
    /\ ret' = NoReturn
    /\ diag' = <<>>
    /\ escaped' = FALSE
    /\ failedAt' = "none"
    /\ raw' = <<>>
    /\ sort_col' = None
    /\ summary' = NoSummary
    /\ summary_col' = None
    /\ metrics' = NoMetrics
    /\ branch' = "none"
    /\ uiError' = "none"
    /\ widgets' = NoWidgets
    /\ users' = <<>>
    /\ UNCHANGED <<session_state, in_flight, gen>>

Next ==
    \/ ScriptStarts
    \/ LoadUsers
    \/ Sidebar
    \/ TpcdsSidebar
    \/ Rerun
    \/ SearchButton
    \/ InvokeTransactions
    \/ InvokeTpcds
    \/ LookupFails
    \/ IssueCall
    \/ BackendAccepts
    \/ CallReturns
    \/ CallFails
    \/ ProcessFails
    \/ ProcessResponse
    \/ Summarise
    \/ DisplayMetrics
    \/ Render
    \/ EndRun

Spec == Init /\ [][Next]_vars

-------------------------------------------------------------------------------
(* generate_sample_data.py: generate_amount and the department rule *)
(* Amounts are integers in thousandths of a dollar, so that round(amount, 2)  *)
(* is computed.                                                               *)

Mills(dollars) == dollars * 1000

CUSTOMER_TIERS == {"PREMIUM", "GOLD", "SILVER", "STANDARD"}

\* tier_data['max_limit'], in dollars
max_limit(tier) ==
    CASE tier = "PREMIUM" -> 500000
      [] tier = "GOLD" -> 100000
      [] tier = "SILVER" -> 25000
      [] OTHER -> 10000

\* the categories of MERCHANT_CATEGORIES
MERCHANT_CATEGORIES ==
    {"GROCERY", "RESTAURANT", "GAS", "RETAIL", "TRANSPORT", "LIQUOR",
     "ENTERTAINMENT", "FINANCIAL", "APPAREL"}

RISK_LEVELS == {"LOW", "MEDIUM", "HIGH", "CRITICAL"}

DEPARTMENTS ==
    {"FINANCE", "OPERATIONS", "MARKETING", "COMPLIANCE", "FRAUD",
     "CUSTOMER_SERVICE"}

\* base_max = tier_data['max_limit'] * 0.1, in thousandths of a dollar
base_max(tier) == max_limit(tier) * 100

\* the arguments (a, cap) of random.uniform(a, min(cap, base_max)) for a
\* merchant category, in dollars
amount_range(merchant_category) ==
    CASE merchant_category \in {"GROCERY", "GAS", "RESTAURANT"} -> <<5, 500>>
      [] merchant_category \in {"RETAIL", "APPAREL"} -> <<20, 2000>>
      [] merchant_category \in {"ENTERTAINMENT", "LIQUOR"} -> <<15, 800>>
      [] merchant_category = "FINANCIAL" -> <<100, 5000>>
      [] OTHER -> <<10, 1000>>

\* mutant of amount_upper: the category cap is not applied
amount_upper_uncapped(customer_tier, merchant_category) ==
    base_max(customer_tier)

\* min(cap, base_max), the second argument of random.uniform
amount_upper(customer_tier, merchant_category) ==
    Min(Mills(amount_range(merchant_category)[2]), base_max(customer_tier))

\* the first argument of random.uniform
amount_lower(merchant_category) == Mills(amount_range(merchant_category)[1])

\* offsets from the ends of the range at which random.uniform is sampled
UniformOffsets == {0, 1, 4, 5, 6, 15, 25, 1000, 250000}

\* random.uniform(a, b): a + (b - a) * random.random(), a value between the
\* two arguments whichever is the larger; sampled at the ends, near the ends
\* and at the middle
uniform(a, b) ==
    LET lo == Min(a, b)
        hi == IF a < b THEN b ELSE a
    IN  {x \in {lo + d : d \in UniformOffsets} \cup {hi - d : d \in UniformOffsets}
                \cup {(lo + hi) \div 2} : lo <= x /\ x <= hi}

\* round(amount, 2): the nearest cent; a value half-way between two cents goes
\* to either, as the binary float decides
round2(x) ==
    LET r == x % 10
        down == x - r
    IN  IF r < 5 THEN {down}
        ELSE IF r > 5 THEN {down + 10}
        ELSE {down, down + 10}

\* generate_amount(customer_tier, merchant_category): the values it can return
generate_amount(customer_tier, merchant_category) ==
    UNION {round2(x) : x \in uniform(amount_lower(merchant_category),
                                     amount_upper(customer_tier, merchant_category))}

\* the branch of the if/elif chain of generate_transaction that assigns
\* primary_department
department_branch(risk_level, merchant_category, amount) ==
    IF risk_level \in {"HIGH", "CRITICAL"} THEN "risk"
    ELSE IF merchant_category = "FINANCIAL" THEN "financial"
    ELSE IF amount > Mills(10000) THEN "amount"
    ELSE IF merchant_category \in {"ENTERTAINMENT", "LIQUOR"} THEN "leisure"
    ELSE "else"

\* the departments a branch can assign (random.choice in the last one)
primary_department(b) ==
    CASE b = "risk" -> {"FRAUD"}
      [] b = "financial" -> {"COMPLIANCE"}
      [] b = "amount" -> {"FINANCE"}
      [] b = "leisure" -> {"COMPLIANCE"}
      [] OTHER -> {"OPERATIONS", "CUSTOMER_SERVICE"}

\* generate_transaction has not started
GenIdle ==
    [step |-> "idle", customer_tier |-> "", merchant_category |-> "",
     risk_level |-> "", lower |-> 0, upper |-> 0, amount |-> 0, taken |-> "",
     primary_department |-> ""]

GenInit ==
    /\ SessionInit
    /\ gen = GenIdle

\* generate_transaction: "Select random attributes with weights"
SelectAttributes ==
    /\ gen.step = "idle"
    /\ \E t \in CUSTOMER_TIERS, c \in MERCHANT_CATEGORIES, r \in RISK_LEVELS :
         gen' = [GenIdle EXCEPT !.step = "selected", !.customer_tier = t,
                                !.merchant_category = c, !.risk_level = r]
    /\ UNCHANGED sessionVars

\* amount = generate_amount(customer_tier_info['tier'], merchant_info['category'])
GenerateAmount ==
    /\ gen.step = "selected"
    /\ \E a \in generate_amount(gen.customer_tier, gen.merchant_category) :
         gen' = [gen EXCEPT !.step = "amount",
                            !.lower = amount_lower(gen.merchant_category),
                            !.upper = amount_upper(gen.customer_tier,
                                                   gen.merchant_category),
                            !.amount = a]
    /\ UNCHANGED sessionVars

\* "Assign primary department based on transaction characteristics"
AssignDepartment ==
    /\ gen.step = "amount"
    /\ LET b == department_branch(gen.risk_level, gen.merchant_category, gen.amount)
       IN  \E d \in primary_department(b) :
             gen' = [gen EXCEPT !.step = "assigned", !.taken = b,
                                !.primary_department = d]
    /\ UNCHANGED sessionVars

\* generate_transaction returns the record; main appends it and goes on
ReturnTransaction ==
    /\ gen.step = "assigned"
    /\ gen' = GenIdle
    /\ UNCHANGED sessionVars

GenNext ==
    \/ SelectAttributes
    \/ GenerateAmount
    \/ AssignDepartment
    \/ ReturnTransaction

GenSpec == GenInit /\ [][GenNext]_vars

------------------------------------------------------------------------------
(* Helpers of the properties *)

\* a query text made of whitespace only (the empty text included)
IsBlank(q) == \A i \in 1..Len(q) : q[i] \in Whitespace

\* the conditions the TPCDS app emits for the filters argument
EmittedConditions(filters) ==
    IF IsNone(filters) THEN <<>> ELSE filter_conditions(filters.val)

\* the leaves of a filter expression, left to right
RECURSIVE FilterLeaves(_)
RECURSIVE FilterLeavesOfAll(_)
FilterLeaves(f) ==
    IF f.op = "null" THEN <<>>
    ELSE IF f.op = "@and" THEN FilterLeavesOfAll(f.children)
    ELSE <<f>>

FilterLeavesOfAll(fs) ==
    IF fs = <<>> THEN <<>> ELSE FilterLeaves(Head(fs)) \o FilterLeavesOfAll(Tail(fs))

\* the leaves of f that test `field`
LeavesOn(f, field) == SelectSeq(FilterLeaves(f), LAMBDA l : l.field = field)

MultiValuedFacets == {"year_range", "customer_gender", "marital_status", "category_name"}

\* the selection of a facet: None when the filters argument is None
SelectionOf(filters, facet) == IF IsNone(filters) THEN None ELSE filters.val[facet]

TpcdsCallInFlight == app = "tpcds" /\ pc = "inflight"

\* the search function has returned its triple to main
Returned == pc \in {"done", "summarised", "displayed", "crashed", "rendered"}

------------------------------------------------------------------------------
(* Properties *)

\* C1: in the entitlement app every backend search call, whatever the user_id,
\* the query text (blank or not) and the limit, carries the filter
\* Contains(entitled_user_ids, user_id) for exactly the user_id passed in; no
\* call is in flight without that filter.
C1_EntitlementFilterOnEveryCall ==
    /\ (app = "ent" /\ pc = "inflight") =>
          /\ "filter" \in DOMAIN inflight
          /\ inflight.filter.op = "@contains"
          /\ inflight.filter.field = "entitled_user_ids"
          /\ inflight.filter.value = args.user_id
    /\ (app = "ent" /\ "filter" \in DOMAIN inflight) => pc = "inflight"

C1_Witness ==
    /\ app = "ent" /\ pc = "inflight" /\ nCalls = 1
    /\ IsBlank(args.search_query)
    /\ args.user_id = "USER_002"

\* C2 as stated: with n predicates emitted, the filter sent is an And iff
\* n >= 2, for n = 1 it is the single predicate and not an And, for n = 0 it is
\* null.
C2_AndIffTwoOrMore ==
    TpcdsCallInFlight =>
        LET conds == EmittedConditions(args.filters)
            n == Len(conds)
            f == inflight.filter
        IN  /\ (f.op = "@and") <=> (n >= 2)
            /\ (n = 1) => (f.op # "@and")
            /\ (n = 0) => (f.op = "null")

\* C2 as amended: for n >= 2 the filter sent is one And over the n emitted
\* predicates, for n = 1 it is the single predicate unwrapped, for n = 0 it is
\* null; the filter is an And iff n >= 2 or the single predicate is the price
\* range, which is itself And(gte, lte).
C2_TopLevelAndIffTwoOrMore ==
    TpcdsCallInFlight =>
        LET conds == EmittedConditions(args.filters)
            n == Len(conds)
            f == inflight.filter
        IN  /\ (n >= 2) => (f.op = "@and" /\ f.children = conds)
            /\ (n = 1) => (f.op = conds[1].op /\ f = conds[1])
            /\ (n = 0) => (f.op = "null")
            /\ (f.op = "@and") <=>
                  (n >= 2 \/ (n = 1 /\ TruthyDict(args.filters.val.price_range)
                                    /\ args.filters.val.price_range.val.min > 0))

C2_Witness ==
    /\ TpcdsCallInFlight
    /\ Len(EmittedConditions(args.filters)) = 1
    /\ inflight.filter.op = "@and"

\* C3: for each multi-valued facet (year_range, customer_gender, marital_status,
\* category_name) a selection of exactly one value emits Equals(field, value),
\* a selection of two or more values emits InSet(field, all selected values),
\* and an empty or absent selection emits no predicate on that field.
C3_FacetPredicates ==
    TpcdsCallInFlight =>
        \A facet \in MultiValuedFacets :
            LET sel == SelectionOf(args.filters, facet)
                leaves == LeavesOn(inflight.filter, WireField(facet))
            IN  IF IsNone(sel) \/ (~IsNone(sel) /\ Len(sel.val) = 0)
                THEN Len(leaves) = 0
                ELSE /\ Len(leaves) = 1
                     /\ IF Len(sel.val) = 1
                        THEN leaves[1].op = "@eq" /\ leaves[1].value = sel.val[1]
                        ELSE leaves[1].op = "@in" /\ leaves[1].value = sel.val

C3_Witness ==
    /\ TpcdsCallInFlight
    /\ ~IsNone(args.filters)
    /\ TruthyList(args.filters.val.year_range)
    /\ Len(args.filters.val.year_range.val) = 2
    /\ TruthyList(args.filters.val.customer_gender)
    /\ Len(args.filters.val.customer_gender.val) = 1
    /\ ~IsNone(args.filters.val.category_name)
    /\ Len(args.filters.val.category_name.val) = 0

\* the facet selection {customer_gender: ["M"], price_range: {min: 0, max: 1000}}
FullDomainSelection ==
    Some([ price_range |-> Some([min |-> PriceDomainMin, max |-> PriceDomainMax]),
           year_range |-> None,
           customer_gender |-> Some(<<"M">>),
           marital_status |-> None,
           category_name |-> None ])

\* C4: for the facet selection {customer_gender: ["M"], price_range: {min: 0,
\* max: 1000}} the price predicate is omitted and the filter sent is exactly
\* Equals(customer_gender, "M"), with no And wrapper.
C4_FullDomainPriceOmitted ==
    (TpcdsCallInFlight /\ args.filters = FullDomainSelection) =>
        /\ inflight.filter.op = "@eq"
        /\ inflight.filter.field = "customer_gender"
        /\ inflight.filter.value = "M"

C4_Witness ==
    /\ TpcdsCallInFlight
    /\ args.filters = FullDomainSelection
    /\ nCalls = 1

\* C5: a price predicate is emitted exactly when the selected range narrows
\* the full domain [0, 1000]: every range with min > 0 or max < 1000 yields a
\* range predicate carrying the lower and the upper bound, and only the
\* full-domain range is omitted.
C5_PriceEmittedIffNarrows ==
    (TpcdsCallInFlight /\ ~IsNone(args.filters)
        /\ ~IsNone(args.filters.val.price_range)) =>
        LET r == args.filters.val.price_range.val
            narrows == r.min > PriceDomainMin \/ r.max < PriceDomainMax
            leaves == LeavesOn(inflight.filter, "unit_price")
        IN  IF narrows
            THEN /\ Len(leaves) = 2
                 /\ leaves[1].op = "@gte" /\ leaves[1].value = r.min
                 /\ leaves[2].op = "@lte" /\ leaves[2].value = r.max
            ELSE Len(leaves) = 0

\* C6: for a facet selection whose price range has its lower bound above its
\* upper bound the filter compiler fails before any backend search call; no
\* backend call is made for such a selection.
C6_InvertedRangeNeverSent ==
    (app = "tpcds" /\ "filters" \in DOMAIN args /\ ~IsNone(args.filters)
        /\ ~IsNone(args.filters.val.price_range)
        /\ args.filters.val.price_range.val.min > args.filters.val.price_range.val.max) =>
        (nCalls = 0 /\ pc # "inflight")

\* C7: any failure inside the search function (service lookup, backend call,
\* processing of the response rows) is caught: the function returns an empty
\* record set, the measured elapsed time and result count 0, emits a non-empty
\* diagnostic message, and no exception leaves the function.
C7_FailuresCaught ==
    /\ ~escaped
    /\ pc # "raised"
    /\ (failedAt # "none") =>
          /\ Returned
          /\ IsEmptyDF(ret.df)
          /\ ret.df.rows = <<>>
          /\ ret.result_count = 0
          /\ ret.response_time = now - start_time
          /\ \E i \in 1..Len(diag) :
                diag[i].level = "error" /\ (diag[i].prefix # "" \/ diag[i].detail # "")

C7_Witness ==
    /\ failedAt = "process"
    /\ pc = "done"
    /\ diag[1].detail = ""

\* C8: each invocation of the search function issues exactly one backend call
\* on the success path and at most one on the failure path; a failed call is
\* never issued again.
C8_OneCallNoRetry ==
    /\ nCalls <= 1
    /\ (pc \in {"inflight", "blocked", "responded"}) => nCalls = 1
    /\ (Returned /\ failedAt = "none") => nCalls = 1
    /\ (failedAt = "lookup") => nCalls = 0
    /\ (failedAt \in {"call", "process"}) => nCalls = 1

C8_Witness ==
    /\ pc = "done"
    /\ failedAt = "call"
    /\ nCalls = 1

\* C9: the backend never receives an empty or whitespace-only query: a blank
\* query text is replaced by the fixed term of the app ("transaction" /
\* "products transactions"), a non-blank text is passed unchanged, and in both
\* cases the filter, columns, scoring configuration and limit are the same.
C9_QueryNeverBlank ==
    (pc = "inflight") =>
        /\ ~IsBlank(inflight.query)
        /\ IsBlank(args.search_query) =>
              inflight.query =
                 IF app = "ent"
                 THEN << "t", "r", "a", "n", "s", "a", "c", "t", "i", "o", "n" >>
                 ELSE << "p", "r", "o", "d", "u", "c", "t", "s", " ",
                         "t", "r", "a", "n", "s", "a", "c", "t", "i", "o", "n", "s" >>
        /\ ~IsBlank(args.search_query) => inflight.query = args.search_query
        /\ LET other == semantic_request(app, [args EXCEPT !.search_query = <<"x">>])
           IN  /\ inflight.columns = other.columns
               /\ inflight.scoring_config = other.scoring_config
               /\ inflight.limit = other.limit
               /\ inflight.filter = other.filter

C9_Witness ==
    /\ pc = "inflight"
    /\ args.search_query = <<" ", "\t">>
    /\ app = "tpcds"

\* C10: the elapsed time is taken on the success and on the failure path: it is
\* never negative and never less than the duration of the backend call; a call
\* that fails after 4500 ms yields an empty record set with an elapsed time of
\* about 4500 ms (4500 ms plus the service lookup), which is classified Slow.
C10_ElapsedCoversCall ==
    /\ (pc \in {"inflight", "blocked", "responded"}) => start_time <= now
    /\ Returned =>
          /\ ret.response_time >= 0
          /\ (nCalls = 1) => ret.response_time >= callDuration
          /\ (failedAt = "call" /\ callDuration = 4500) =>
                /\ IsEmptyDF(ret.df)
                /\ (ret.response_time - 4500) \in LookupTimes
                /\ perf_status(ret.response_time) = "Slow"

C10_Witness ==
    /\ pc = "done"
    /\ failedAt = "call"
    /\ callDuration = 4500
    /\ ret.response_time = 4520

\* display_performance_metrics has classified the elapsed time of this run
MetricsShown == "tier" \in DOMAIN metrics

\* the tier of the samples 0, 299, 300, 799, 800, 1999, 2000 and 5000 ms
SampleTiers ==
    (0 :> "Excellent") @@ (299 :> "Excellent") @@ (300 :> "Good") @@ (799 :> "Good")
    @@ (800 :> "Acceptable") @@ (1999 :> "Acceptable") @@ (2000 :> "Slow")
    @@ (5000 :> "Slow")

\* C11: the classifier is total with buckets inclusive at their lower bound:
\* every elapsed time >= 0 gets exactly one tier, Excellent on [0, 300), Good
\* on [300, 800), Acceptable on [800, 2000) and Slow from 2000 on; the samples
\* 0, 299, 300, 799, 800, 1999, 2000, 5000 are classified Excellent,
\* Excellent, Good, Good, Acceptable, Acceptable, Slow, Slow; and the two apps
\* classify every elapsed time identically.
C11_ClassifierBuckets ==
    MetricsShown =>
        LET rt == metrics.response_time
        IN  /\ rt >= 0
            /\ metrics.tier \in {"Excellent", "Good", "Acceptable", "Slow"}
            /\ (metrics.tier = "Excellent") <=> (rt < 300)
            /\ (metrics.tier = "Good") <=> (300 <= rt /\ rt < 800)
            /\ (metrics.tier = "Acceptable") <=> (800 <= rt /\ rt < 2000)
            /\ (metrics.tier = "Slow") <=> (2000 <= rt)
            /\ (rt \in DOMAIN SampleTiers) => (metrics.tier = SampleTiers[rt])
            /\ perf_status(rt) = perf_status_tpcds(rt)

C11_Witness ==
    /\ MetricsShown
    /\ app = "tpcds"
    /\ metrics.response_time = 2000
    /\ metrics.tier = "Slow"

\* C12: display_performance_metrics completes without error for every elapsed
\* time >= 0 and every result count: when the elapsed time is 0 the throughput
\* is reported as unbounded or omitted and no division by zero occurs.
C12_ThroughputNeverDividesByZero ==
    MetricsShown =>
        /\ uiError # "ZeroDivisionError"
        /\ pc # "crashed"
        /\ (metrics.response_time > 0) =>
              metrics.results_per_second =
                 Some([num |-> metrics.result_count * 1000, den |-> metrics.response_time])

\* the search function has returned a frame built from the response
Succeeded == Returned /\ failedAt = "none"

\* the summary function has run
Summarised == pc \in {"summarised", "displayed", "crashed", "rendered"}

\* the first name of the alias list that is one of cols, None when none is
FirstPresent(names, cols) ==
    LET present == { i \in 1..Len(names) : names[i] \in cols }
    IN  IF present = {} THEN None
        ELSE Some(names[CHOOSE i \in present : \A j \in present : i <= j])

\* C13: get_column_name resolves a canonical field to the first name of its
\* alias list that is a column of the record set, and to None when none is;
\* the search function and the summary function, resolving the primary field
\* on the same record set, get the same key; and the resolution leaves the
\* record set as the search function returned it.
C13_FirstAliasWins ==
    /\ (Succeeded /\ ~IsEmptyDF(ret.df)) =>
          sort_col = FirstPresent(primary_names(app), ret.df.columns)
    /\ (Succeeded /\ Summarised /\ ~IsEmptyDF(ret.df)) =>
          /\ summary_col = FirstPresent(primary_names(app), ret.df.columns)
          /\ summary_col = sort_col
          /\ ret.df \in normalized_frames(app, raw)
          /\ (summary["date_range"].earliest = None) <=>
                (FirstPresent(date_names(app), ret.df.columns) = None)
    /\ (Succeeded /\ Summarised /\ IsEmptyDF(ret.df)) => summary_col = None

C13_Witness ==
    /\ pc = "summarised"
    /\ app = "ent"
    /\ {"AMOUNT", "amount"} \subseteq ret.df.columns
    /\ Len(ret.df.rows) = 1
    /\ summary_col = Some("AMOUNT")
    /\ sort_col = Some("AMOUNT")

\* the amount of a record: its value under the first alias that holds one
CanonicalAmount(a, row) ==
    LET names == primary_names(a)
        held == { i \in 1..Len(names) :
                    names[i] \in DOMAIN row /\ ~IsNaN(row[names[i]]) }
    IN  IF held = {} THEN NaN
        ELSE row[names[CHOOSE i \in held : \A j \in held : i <= j]]

\* the response [{"AMOUNT": "1200.50"}, {"amount": "900"}]
MixedCaseResponse == << ("AMOUNT" :> Str("1200.50")), ("amount" :> Str("900")) >>

\* C14: a response of the entitlement app made of the raw rows
\* {"AMOUNT": "1200.50"} and {"amount": "900"} is returned as two records,
\* with the amounts 1200.50 and 900.0 in that order: the record keyed by the
\* second alias survives the normalization.
C14_MixedCaseBothSurvive ==
    (Succeeded /\ app = "ent" /\ raw = MixedCaseResponse) =>
        /\ Len(ret.df.rows) = 2
        /\ CanonicalAmount(app, ret.df.rows[1]) = Num(120050)
        /\ CanonicalAmount(app, ret.df.rows[2]) = Num(90000)

\* the texts pd.to_numeric and pd.to_datetime can parse
NumericLiterals == {"1200.50", "900", "900.0"}
DateLiterals == {"2024-01-15"}

\* raw row r holds a parsable number under column c
HoldsNumber(r, c) == c \in DOMAIN r /\ r[c].t = "str" /\ r[c].v \in NumericLiterals

\* record out is raw row r after coercion: a missing key and an unparsable
\* value of a numeric or date column are null, a parsable one is a number or a
\* date, and every other cell is as received
CoercedFrom(a, out, r) ==
    \A c \in DOMAIN out :
        IF c \notin DOMAIN r THEN IsNaN(out[c])
        ELSE IF c \in numeric_columns(a)
             THEN IF r[c].v \in NumericLiterals THEN out[c].t = "num" ELSE IsNaN(out[c])
        ELSE IF c \in date_columns
             THEN IF r[c].v \in DateLiterals THEN out[c].t = "date" ELSE IsNaN(out[c])
        ELSE out[c] = r[c]

\* C15: coercion is fail-to-null and the drop policy is complete, in both
\* apps: an unparsable value in a numeric or date column becomes null and
\* raises nothing (processing fails only on a row that is no dict); and
\* whenever the mandatory numeric column (amount / unit_price) is resolvable,
\* no retained record is null in it while every row that held a parsable value
\* in it is retained, and nothing else is.
C15_CoercionAndDropPolicy ==
    /\ (failedAt = "process") => \E i \in 1..Len(raw) : IsBad(raw[i])
    /\ (Succeeded /\ raw # <<>>) =>
          LET col == FirstPresent(primary_names(app), DataFrame(raw).columns)
              out == ret.df.rows
              kept == IF IsNone(col) THEN 1..Len(raw)
                      ELSE { i \in 1..Len(raw) : HoldsNumber(raw[i], col.val) }
          IN  /\ ret.df.columns = DataFrame(raw).columns
              /\ Len(out) = Cardinality(kept)
              /\ \A j \in 1..Len(out) : \E i \in kept : CoercedFrom(app, out[j], raw[i])
              /\ \A i \in kept : \E j \in 1..Len(out) : CoercedFrom(app, out[j], raw[i])
              /\ ~IsNone(col) => \A j \in 1..Len(out) : out[j][col.val].t = "num"

C15_Witness ==
    /\ Succeeded
    /\ app = "tpcds"
    /\ Len(raw) = 2
    /\ \E i \in 1..2 : /\ HoldsNumber(raw[i], "unit_price")
                         /\ date_column \in DOMAIN raw[i]
                         /\ raw[i][date_column] = Str("soon")
    /\ \E i \in 1..2 : "unit_price" \in DOMAIN raw[i] /\ raw[i]["unit_price"] = Str("abc")
    /\ Len(ret.df.rows) = 1
    /\ IsNaN(ret.df.rows[1][date_column])
    /\ ret.df.rows[1]["unit_price"] = Num(90000)

\* the dropped-row counts reported by the run, in the order reported
DroppedCounts ==
    LET reports == SelectSeq(diag, LAMBDA m : m.prefix = "Dropped rows with null")
    IN  [ i \in 1..Len(reports) |-> reports[i].n ]

\* C16: the number of rows dropped by the normalization is reported for every
\* raw response, also when it is zero: a run that returns a record set has
\* reported exactly one dropped-row count, equal to the number of raw rows
\* minus the number of retained rows.
C16_DropCountAlwaysReported ==
    Succeeded => DroppedCounts = << Len(raw) - Len(ret.df.rows) >>

\* the rows of s in descending order of column col, rows of equal key in the
\* order they have in s
StableDescending(s, col) ==
    LET g == CHOOSE f \in IndexPermutations(Len(s)) :
                \A i \in 1..(Len(s) - 1) :
                    \/ s[f[i]][col].v > s[f[i + 1]][col].v
                    \/ (s[f[i]][col].v = s[f[i + 1]][col].v /\ f[i] < f[i + 1])
    IN  [ i \in 1..Len(s) |-> s[g[i]] ]

\* C17: the record set returned on success is ordered by the resolved primary
\* numeric field in descending order, and the sort is stable: records of equal
\* value keep the order the backend returned them in.
C17_SortedDescendingStable ==
    (Succeeded /\ ~IsNone(sort_col)) =>
        /\ \A j \in 1..(Len(ret.df.rows) - 1) :
              ret.df.rows[j][sort_col.val].v >= ret.df.rows[j + 1][sort_col.val].v
        /\ ret.df.rows =
              StableDescending(convert_data_types(app, DataFrame(raw)).rows, sort_col.val)

\* C18: the normalization (convert_data_types, then the descending sort) is
\* idempotent: applied to the record set it returned it yields the same
\* records in the same order and drops no further row.
C18_NormalizationIdempotent ==
    Succeeded => normalize_frame(app, ret.df) = { ret.df }

\* C19: for every non-empty normalized record set the total count of the
\* summary (total_transactions / total_results) is the number of records of
\* that set: the rows of the response that survived the normalization, not
\* the number of rows received.
C19_SummaryCountsRecords ==
    (Succeeded /\ Summarised /\ ~IsEmptyDF(ret.df)) =>
        LET col == FirstPresent(primary_names(app), DataFrame(raw).columns)
            kept == IF IsNone(col) THEN 1..Len(raw)
                    ELSE { i \in 1..Len(raw) : HoldsNumber(raw[i], col.val) }
        IN  /\ count_key(app) \in DOMAIN summary
            /\ summary[count_key(app)] = Len(ret.df.rows)
            /\ summary[count_key(app)] = Cardinality(kept)
            /\ summary[count_key(app)] <= ret.result_count

C19_Witness ==
    /\ Succeeded
    /\ pc = "rendered"
    /\ app = "ent"
    /\ ret.result_count = 2
    /\ Len(ret.df.rows) = 1
    /\ summary["total_transactions"] = 1
    /\ branch = "results"

\* C20: for an empty record set the summary function returns the empty
\* summary without raising, and the rest of the run completes:
\* display_performance_metrics reads no summary field and ends without an
\* exception, and main renders the no-results branch, which reads none either.
C20_EmptySetFlowCompletes ==
    (Summarised /\ IsEmptyDF(ret.df)) =>
        /\ DOMAIN summary = {}
        /\ uiError = "none"
        /\ pc # "crashed"
        /\ MetricsShown => metrics.reads = {}
        /\ (pc = "rendered") => branch = "no_results"

\* f is the @and of a price range: exactly a @gte and a @lte on unit_price
IsPriceAnd(f) ==
    /\ f.op = "@and"
    /\ Len(f.children) = 2
    /\ f.children[1].op = "@gte" /\ f.children[1].field = "unit_price"
    /\ f.children[2].op = "@lte" /\ f.children[2].field = "unit_price"

\* l is a well-formed leaf of the request built from arguments ar: an @in
\* holds at least two values, an @eq the one selected value of its facet, the
\* @contains the user_id
IsWellFormedLeaf(l, ar) ==
    \/ /\ l.op = "@in"
       /\ Len(l.value) >= 2
    \/ /\ l.op = "@eq"
       /\ \E facet \in MultiValuedFacets :
             /\ WireField(facet) = l.field
             /\ Len(SelectionOf(ar.filters, facet).val) = 1
             /\ l.value = SelectionOf(ar.filters, facet).val[1]
    \/ /\ l.op = "@contains"
       /\ l.value = ar.user_id

\* C21: every filter sent to the backend is null or a well-formed expression:
\* an @and is never empty (the top-level @and has at least two children, the
\* @and of the price range exactly two), an @in leaf has at least two values
\* and an @eq leaf exactly one scalar value.
C21_FilterWellFormed ==
    (pc = "inflight") =>
        LET f == inflight.filter
        IN  \/ f.op = "null"
            \/ IsPriceAnd(f)
            \/ /\ f.op = "@and"
               /\ Len(f.children) >= 2
               /\ \A i \in 1..Len(f.children) :
                     \/ IsPriceAnd(f.children[i])
                     \/ /\ f.children[i].op # "@and"
                        /\ IsWellFormedLeaf(f.children[i], args)
            \/ /\ f.op # "@and"
               /\ IsWellFormedLeaf(f, args)

C21_Witness ==
    /\ TpcdsCallInFlight
    /\ inflight.filter.op = "@and"
    /\ Len(inflight.filter.children) = 3
    /\ IsPriceAnd(inflight.filter.children[1])
    /\ inflight.filter.children[2].op = "@in"
    /\ inflight.filter.children[3].op = "@eq"

\* why the record set main holds is empty, "" when it is not empty
EmptyCause ==
    IF ~IsEmptyDF(ret.df) THEN ""
    ELSE IF failedAt # "none" THEN "failure"
    ELSE IF raw = <<>> THEN "no matches"
    ELSE "all rows dropped"

C25_FixedRequestShape ==
    (pc = "inflight") =>
        /\ DOMAIN inflight = {"query", "columns", "filter", "scoring_config", "limit"}
        /\ DOMAIN inflight.scoring_config = {"reranker"}
        /\ inflight.scoring_config.reranker = "none"
        /\ inflight.limit = args.limit
        /\ (app = "ent") =>
              inflight.columns =
                 << "txn_id", "region_name", "description", "amount", "transaction_type",
                    "category", "merchant_name", "transaction_date", "entitled_user_ids" >>
        /\ (app = "tpcds") =>
              inflight.columns =
                 << "item_key", "customer_key", "store_key", "date_key",
                    "item_description", "product_name", "brand_name", "category_name",
                    "store_name", "store_location", "customer_info", "unit_price",
                    "total_sales", "quantity", "profit", "customer_gender",
                    "marital_status", "transaction_date", "year" >>

C25_Witness ==
    /\ TpcdsCallInFlight
    /\ IsBlank(args.search_query)
    /\ args.limit = 50
    /\ inflight.limit = 50
    /\ inflight.filter.op = "@in"

\* C26: on the success path the result count the search function returns (the
\* N of "Found N" and of the throughput figure) is the number of records of
\* the normalized record set returned with it, for every response, also one
\* with rows dropped by the normalization.
C26_ResultCountIsRecordCount ==
    Succeeded => ret.result_count = Len(ret.df.rows)

\* C27: within one request the same concrete column is the primary numeric
\* field everywhere: for every set of columns of the response, the column
\* convert_data_types cleans of nulls is the column the sort and the summary
\* statistics resolve (AMOUNT before amount in the entitlement app, unit_price
\* before UNIT_PRICE in the TPCDS app).
C27_OnePrimaryColumn ==
    (Succeeded /\ raw # <<>>) =>
        LET cleaned == drop_column(app, DataFrame(raw))
            first == IF app = "ent" THEN "AMOUNT" ELSE "unit_price"
            second == IF app = "ent" THEN "amount" ELSE "UNIT_PRICE"
        IN  /\ cleaned = sort_col
            /\ (Summarised /\ ~IsEmptyDF(ret.df)) => summary_col = cleaned
            /\ (first \in ret.df.columns) => sort_col = Some(first)
            /\ (first \notin ret.df.columns /\ second \in ret.df.columns) =>
                  sort_col = Some(second)
            /\ ({first, second} \cap ret.df.columns = {}) => sort_col = None

C27_Witness ==
    /\ Succeeded
    /\ Summarised
    /\ app = "tpcds"
    /\ {"unit_price", "UNIT_PRICE"} \subseteq ret.df.columns
    /\ Len(raw) = 2
    /\ Len(ret.df.rows) = 1
    /\ sort_col = Some("unit_price")
    /\ summary_col = Some("unit_price")

\* C28: in the entitlement app no backend search call is issued without a
\* selected identity: when get_users_list fails or returns no active users,
\* main stops after the error message and the search function is not entered
\* in that run; a run that goes past the user list has users, and the user_id
\* of the call is one of them.
C28_NoCallWithoutIdentity ==
    /\ (pc = "stopped") =>
          /\ app = "ent"
          /\ users = <<>>
          /\ Len(diag) > 0
          /\ diag[Len(diag)] = no_users_message
          /\ nCalls = 0
          /\ in_flight = 0
          /\ args = NoArgs
          /\ ret = NoReturn
    /\ (app = "ent" /\ pc \notin {"idle", "top", "stopped"}) => Len(users) > 0
    /\ (app = "ent" /\ pc \in {"started", "inflight"}) =>
          args.user_id \in selectbox_options(users)
    /\ (app = "ent" /\ nCalls > 0) => Len(users) > 0

C28_Witness ==
    /\ pc = "stopped"
    /\ diag = <<"Error fetching users: service unavailable", no_users_message>>

\* C29: a script run that reaches the search step issues the backend search
\* call whether or not the Search button was pressed in that run: once the
\* search function is past its service lookup exactly one call has been issued,
\* with the request built from the arguments alone; pressing the button only
\* removes 'search_results' from st.session_state.  (The one run without a call
\* is the run whose service lookup raised, pressed or not.)
C29_CallIssuedWhateverTheButton ==
    /\ (pc = "inflight") => (nCalls = 1 /\ inflight = search_request(app, args))
    /\ (pc \in {"blocked", "responded", "done", "summarised", "displayed",
                "crashed", "rendered", "raised"}) =>
          nCalls = (IF failedAt = "lookup" THEN 0 ELSE 1)
    /\ widgets.search_button => "search_results" \notin session_state
    /\ (pc \in {"inflight", "blocked", "responded"}) =>
          (~widgets.auto_refresh /\ ~widgets.clear_button)

C29_Witness ==
    /\ pc = "rendered"
    /\ ~widgets.search_button
    /\ nCalls = 1
    /\ failedAt = "none"
    /\ branch = "results"

\* C23: within one session at most one backend search call is in flight at any
\* time: a call is in flight only while the script run is blocked in the search
\* function, a run issues no second call, and no run starts, reruns or
\* auto-refreshes while a call is in flight.
C23_OneCallInFlight ==
    /\ in_flight \in {0, 1}
    /\ (in_flight = 1) <=> (pc \in {"inflight", "blocked"})
    /\ nCalls <= 1
    /\ (in_flight = 1) => (nCalls = 1 /\ failedAt = "none" /\ ret = NoReturn)
    /\ (pc \in {"idle", "top", "sidebar", "rerun", "content", "search",
                "stopped", "started"}) => (nCalls = 0 /\ in_flight = 0)

C23_Witness ==
    /\ in_flight = 1
    /\ pc = "blocked"
    /\ app = "tpcds"
    /\ widgets.search_button

\* C22: with auto-refresh enabled every refresh cycle runs the search flow up to
\* the backend search call: a script run of the entitlement app that ends in
\* the st.rerun() of the auto-refresh has issued a backend call.
C22_RefreshCycleIssuesCall ==
    (app = "ent" /\ pc = "rerun" /\ widgets.auto_refresh) => nCalls >= 1

\* C30: in the sample-data generator, for every customer tier and merchant
\* category generate_amount draws from a range whose lower bound is at most its
\* upper bound and returns an amount within it, at most 5000; so the branch
\* 'amount > 10000' of generate_transaction is never taken, and
\* primary_department is one of FRAUD, COMPLIANCE, OPERATIONS, CUSTOMER_SERVICE,
\* FRAUD exactly when the risk level is HIGH or CRITICAL, never FINANCE or
\* MARKETING.
C30_AmountsAndDepartments ==
    /\ (gen.step \in {"amount", "assigned"}) =>
          /\ gen.lower <= gen.upper
          /\ gen.lower <= gen.amount
          /\ gen.amount <= gen.upper
          /\ gen.amount <= Mills(5000)
          /\ gen.amount % 10 = 0
    /\ (gen.step = "assigned") =>
          /\ gen.taken # "amount"
          /\ gen.primary_department \in
                {"FRAUD", "COMPLIANCE", "OPERATIONS", "CUSTOMER_SERVICE"}
          /\ (gen.primary_department = "FRAUD") <=>
                (gen.risk_level \in {"HIGH", "CRITICAL"})
          /\ gen.primary_department \notin {"FINANCE", "MARKETING"}

C30_Witness ==
    /\ gen.step = "assigned"
    /\ gen.customer_tier = "PREMIUM"
    /\ gen.merchant_category = "FINANCIAL"
    /\ gen.risk_level = "LOW"
    /\ gen.amount = Mills(5000)
    /\ gen.primary_department = "COMPLIANCE"

====
